---- MODULE Spec2Model ----
(***************************************************************************)
(* Model of src/app.py: the download-and-merge pipeline of index(), the    *)
(* helpers it calls, and the background cleaner thread clean_old_files().  *)
(*                                                                         *)
(* Strings are sequences of one-character strings (a URL is a sequence of  *)
(* lexical tokens), the two folders are one map from paths to file         *)
(* records, and time is a clock in milliseconds.  A blocking call          *)
(* (extract_info, requests.get, ydl.download, subprocess.run, time.sleep)  *)
(* may take any time; the code between two blocking calls is split at      *)
(* every access to the file system and completes within one clock tick.    *)
(* A cycle of the cleaner thread is one action: it only removes files      *)
(* that are already expired, and it spends no time.                        *)
(*                                                                         *)
(* Spec is the program serving two requests, SpecSingle the program        *)
(* serving one, SpecSelect one request at the selection step, over every   *)
(* descriptor list up to MaxFormats.                                       *)
(***************************************************************************)
EXTENDS Integers, Sequences, FiniteSets, TLC

VARIABLES
    clock,                  \* wall clock, milliseconds since process start
    pending,                \* number of POST requests still to arrive
    files,                  \* path -> [ctime, whole]: the files on disk
    pc,                     \* job -> position in index()
    video_url,              \* job -> submitted URL after .strip()
    timestamp,              \* job -> strftime("%Y%m%d%H%M%S") of line 196
    video_info,             \* job -> what extract_info returned
    local_thumbnail,        \* job -> thumbnail path, or NoPath
    selected_video_format,  \* job -> descriptor chosen at line 232
    selected_audio_format,  \* job -> descriptor chosen at line 238
    response,               \* job -> what render_template was given
    calls,                  \* job -> log: operations invoked, and how they ended
    failed_at,              \* job -> step in which the job ended with an error
    current_time,           \* clean_old_files: current_time of the last cycle
    wake_at,                \* clean_old_files: when time.sleep returns
    cleaner_log             \* clean_old_files: what the last cycle printed

vars == <<clock, pending, files, pc, video_url, timestamp, video_info, local_thumbnail,
          selected_video_format, selected_audio_format, response, calls,
          failed_at, current_time, wake_at, cleaner_log>>

job_vars == <<pc, video_url, timestamp, video_info, local_thumbnail,
              selected_video_format, selected_audio_format, response, calls,
              failed_at>>

cleaner_vars == <<current_time, wake_at, cleaner_log>>

-----------------------------------------------------------------------------
(* Bounds of the model *)

\* fine clock steps taken after each long one
MaxFine == 1
\* long clock steps (one sleep interval each)
MaxLong == 2
\* length of a fine clock step, milliseconds
FineStepMs == 500
\* longest descriptor list the selector is checked on
MaxFormats == 3
\* longest title the sanitizer is checked on
MaxTitle == 3

Jobs == {1, 2}

-----------------------------------------------------------------------------
(* Configuration, lines 16-22 and 52 *)

DOWNLOAD_FOLDER == "downloads"
TEMP_FOLDER == "temp"
MAX_FILE_AGE == 3600
AUDIO_PREFERRED_ASR == 48000
SLEEP_SECONDS == 1800

Seconds(n) == n * 1000

\* datetime.now().strftime("%Y%m%d%H%M%S"): the clock cut to whole seconds
strftime(t) == t \div 1000

-----------------------------------------------------------------------------
(* Strings *)

\* characters str.strip() removes
Whitespace == {" ", "\t", "\n"}

RECURSIVE lstrip(_)
lstrip(s) ==
    IF s # <<>> /\ Head(s) \in Whitespace THEN lstrip(Tail(s)) ELSE s

RECURSIVE rstrip(_)
rstrip(s) ==
    IF s # <<>> /\ s[Len(s)] \in Whitespace
    THEN rstrip(SubSeq(s, 1, Len(s) - 1))
    ELSE s

\* str.strip()
strip(s) == rstrip(lstrip(s))

\* the character class of illegal_char_pattern, line 78
IllegalChars == {"\\", "/", "*", "?", ":", "\"", "<", ">", "|"}

IsLegalChar(c) == c \notin IllegalChars

\* faulty variant: strip before the illegal characters are removed
sanitize_filename_strip_first(title) == SelectSeq(strip(title), IsLegalChar)

sanitize_filename(title) == strip(SelectSeq(title, IsLegalChar))

\* URL tokens: the literals of the two patterns, and single characters
AlnumTokens == {"B", "1", "s", "http"}
PathTokens == AlnumTokens \cup {"_", "?", "=", "/", "-"}

RECURSIVE AllIn(_, _)
AllIn(s, S) == s = <<>> \/ (Head(s) \in S /\ AllIn(Tail(s), S))

\* re.fullmatch of  https?://<host literal><one or more characters of tail>
FullMatch(url, host, tail) ==
    /\ url # <<>>
    /\ Head(url) = "http"
    /\ LET r1 == Tail(url)
           r2 == IF r1 # <<>> /\ Head(r1) = "s" THEN Tail(r1) ELSE r1
       IN  /\ Len(r2) >= 3
           /\ r2[1] = "://"
           /\ r2[2] = host
           /\ AllIn(SubSeq(r2, 3, Len(r2)), tail)

is_valid_bilibili_url(url) ==
    \/ FullMatch(url, "www.bilibili.com/video/", PathTokens)
    \/ FullMatch(url, "b23.tv/", AlnumTokens)

-----------------------------------------------------------------------------
(* Stream descriptors: Python dicts, a key may be missing *)

Has(d, key) == key \in DOMAIN d

VideoFormat(id, h) ==
    [format_id |-> id, vcodec |-> "avc1", acodec |-> "none", height |-> h,
     ext |-> "mp4"]

AudioFormat(id, r) ==
    [format_id |-> id, vcodec |-> "none", acodec |-> "mp4a", asr |-> r,
     ext |-> "m4a"]

\* line 220: fmt.get('vcodec') != 'none' and fmt.get('acodec') == 'none'
IsPureVideo(fmt) ==
    /\ (~Has(fmt, "vcodec") \/ fmt.vcodec # "none")
    /\ (Has(fmt, "acodec") /\ fmt.acodec = "none")

\* line 224: fmt.get('acodec') != 'none' and fmt.get('vcodec') == 'none'
IsPureAudio(fmt) ==
    /\ (~Has(fmt, "acodec") \/ fmt.acodec # "none")
    /\ (Has(fmt, "vcodec") /\ fmt.vcodec = "none")

pure_video_formats(all_formats) == SelectSeq(all_formats, IsPureVideo)

\* faulty variant: the audio list is not filtered
pure_audio_formats_unfiltered(all_formats) == all_formats

pure_audio_formats(all_formats) == SelectSeq(all_formats, IsPureAudio)

\* x.get('height', 0)
HeightKey(fmt) == IF Has(fmt, "height") THEN fmt.height ELSE 0

\* x.get('asr', 0)
AsrKey(fmt) == IF Has(fmt, "asr") THEN fmt.asr ELSE 0

\* fmt.get('height') == 1080
Is1080(fmt) == Has(fmt, "height") /\ fmt.height = 1080

\* faulty variant: > for >=
IsPreferredAsrStrict(fmt) == AsrKey(fmt) > AUDIO_PREFERRED_ASR

\* fmt.get('asr', 0) >= app.config['AUDIO_PREFERRED_ASR']
IsPreferredAsr(fmt) == AsrKey(fmt) >= AUDIO_PREFERRED_ASR

\* faulty variant: the last maximum wins
RECURSIVE MaxHeightFromLast(_, _)
MaxHeightFromLast(best, rest) ==
    IF rest = <<>> THEN best
    ELSE MaxHeightFromLast(IF HeightKey(Head(rest)) >= HeightKey(best)
                           THEN Head(rest) ELSE best, Tail(rest))

\* max(formats, key=height): the running best is replaced only by a greater key
RECURSIVE MaxHeightFrom(_, _)
MaxHeightFrom(best, rest) ==
    IF rest = <<>> THEN best
    ELSE MaxHeightFrom(IF HeightKey(Head(rest)) > HeightKey(best)
                       THEN Head(rest) ELSE best, Tail(rest))

RECURSIVE MaxAsrFrom(_, _)
MaxAsrFrom(best, rest) ==
    IF rest = <<>> THEN best
    ELSE MaxAsrFrom(IF AsrKey(Head(rest)) > AsrKey(best)
                    THEN Head(rest) ELSE best, Tail(rest))

\* lines 232-235, on a non-empty list
select_video(formats) ==
    LET preferred == SelectSeq(formats, Is1080)
    IN  IF preferred # <<>> THEN Head(preferred)
        ELSE MaxHeightFrom(Head(formats), Tail(formats))

\* lines 238-241, on a non-empty list
select_audio(formats) ==
    LET preferred == SelectSeq(formats, IsPreferredAsr)
    IN  IF preferred # <<>> THEN Head(preferred)
        ELSE MaxAsrFrom(Head(formats), Tail(formats))

-----------------------------------------------------------------------------
(* Paths and files *)

\* f"{video_title}_{timestamp}"
FilenamePrefix(title, ts) == <<title, ts>>

Path(dir, prefix, suffix, ext) ==
    [dir |-> dir, prefix |-> prefix, suffix |-> suffix, ext |-> ext]

ThumbnailPath(prefix) == Path(DOWNLOAD_FOLDER, prefix, "_thumb", "jpg")

TempVideoPath(prefix, fmt) == Path(TEMP_FOLDER, prefix, "_video", fmt.ext)

TempAudioPath(prefix, fmt) == Path(TEMP_FOLDER, prefix, "_audio", fmt.ext)

FinalVideoPath(prefix) == Path(DOWNLOAD_FOLDER, prefix, "", "mp4")

Exists(path) == path \in DOMAIN files

\* the file at path is created or overwritten at the current time
Written(path, whole) ==
    [p \in DOMAIN files \cup {path} |->
        IF p = path THEN [ctime |-> clock, whole |-> whole] ELSE files[p]]

\* os.remove(path) succeeded
Removed(path) == [p \in DOMAIN files \ {path} |-> files[p]]

-----------------------------------------------------------------------------
(* What the environment can hand to the program *)

\* request.form['video_url'] as typed
RawUrls ==
    { <<" ">>,
      <<"www.bilibili.com/video/", "B">>,
      <<"http", "://", "b23.tv/", "B", "?">>,
      <<" ", "http", "s", "://", "www.bilibili.com/video/", "B", "?", " ">> }

GoodFormats ==
    << VideoFormat("v720", 720), VideoFormat("v1080", 1080),
       AudioFormat("a44", 44100), AudioFormat("a48", 48000) >>

\* what ydl.extract_info(video_url, download=False) can return
ProviderInfos ==
    { [title |-> <<"a", ":">>, formats |-> GoodFormats, thumbnail |-> <<"t">>],
      [title |-> <<"?", " ">>, formats |-> GoodFormats, thumbnail |-> <<>>],
      [formats |-> <<VideoFormat("v1080", 1080)>>, thumbnail |-> <<"t">>],
      [title |-> <<"a">>] }

\* str(e) of an exception raised by the extraction provider
ProviderErrors == {"ERROR: Unable to download"}

-----------------------------------------------------------------------------
(* Values of a job's locals *)

NoInfo == [unset |-> TRUE]
NoFormat == [unset |-> TRUE]
NoPath == Path("", <<>>, "", "")
NoResponse ==
    [kind |-> "none", error |-> <<>>, filename |-> NoPath,
     video_title |-> <<>>, thumbnail |-> NoPath]

\* video_info.get('title', f'video_{timestamp}')
InfoTitle(info, ts) ==
    IF Has(info, "title") THEN info.title ELSE <<"video_", ToString(ts)>>

\* video_info.get('formats', [])
InfoFormats(info) == IF Has(info, "formats") THEN info.formats ELSE <<>>

\* video_info.get('thumbnail', '')
InfoThumbnail(info) == IF Has(info, "thumbnail") THEN info.thumbnail ELSE <<>>

\* line 203
video_title(j) == sanitize_filename(InfoTitle(video_info[j], timestamp[j]))

\* line 210
filename_prefix(j) == FilenamePrefix(video_title(j), timestamp[j])

\* lines 244-253
temp_video_path(j) == TempVideoPath(filename_prefix(j), selected_video_format[j])
temp_audio_path(j) == TempAudioPath(filename_prefix(j), selected_audio_format[j])
final_video_path(j) == FinalVideoPath(filename_prefix(j))

\* the messages handed to render_template(error=...)
MsgEmptyUrl == <<"enter a valid Bilibili video link">>
MsgInvalidUrl == <<"invalid Bilibili video link">>
MsgNoStream == <<"cannot get a usable audio/video stream, try another video">>
MsgMergeFailed == "audio/video merge failed, please retry"
\* line 301: f"视频处理失败：{str(e)}"
ExceptionMsg(text) == <<"video processing failed: ", text>>

ErrorResponse(msg) == [NoResponse EXCEPT !.kind = "error", !.error = msg]

\* the job returns render_template('index.html', error=msg)
Fail(j, step, msg) ==
    /\ pc' = [pc EXCEPT ![j] = "failed"]
    /\ response' = [response EXCEPT ![j] = ErrorResponse(msg)]
    /\ failed_at' = [failed_at EXCEPT ![j] = step]

Goto(j, next) ==
    /\ pc' = [pc EXCEPT ![j] = next]
    /\ UNCHANGED <<response, failed_at>>

\* the job's log grows by these entries
Invoke(j, op) == calls' = [calls EXCEPT ![j] = Append(@, op)]
Log(j, entries) == calls' = [calls EXCEPT ![j] = @ \o entries]

-----------------------------------------------------------------------------
(* index(): one POST request per job *)

\* faulty variant: the URL is not validated
SubmitUnchecked(j) ==
    /\ pc[j] = "idle"
    /\ pending > 0
    /\ pending' = pending - 1
    /\ \A i \in Jobs : i < j => pc[i] # "idle"
    /\ \E raw \in RawUrls :
        /\ video_url' = [video_url EXCEPT ![j] = strip(raw)]
        /\ timestamp' = [timestamp EXCEPT ![j] = strftime(clock)]
        /\ Goto(j, "extract_info")
        /\ Invoke(j, "extract_info")
    /\ UNCHANGED <<clock, files, video_info, local_thumbnail,
                   selected_video_format, selected_audio_format>>
    /\ UNCHANGED cleaner_vars

\* lines 184-196: read the form, validate, take the timestamp
Submit(j) ==
    /\ pc[j] = "idle"
    /\ pending > 0
    /\ pending' = pending - 1
    /\ \A i \in Jobs : i < j => pc[i] # "idle"
    /\ \E raw \in RawUrls :
        LET url == strip(raw)
        IN  /\ video_url' = [video_url EXCEPT ![j] = url]
            /\ IF url = <<>>
               THEN /\ Fail(j, "Validating", MsgEmptyUrl)
                    /\ UNCHANGED <<timestamp, calls>>
               ELSE IF ~is_valid_bilibili_url(url)
               THEN /\ Fail(j, "Validating", MsgInvalidUrl)
                    /\ UNCHANGED <<timestamp, calls>>
               ELSE /\ timestamp' = [timestamp EXCEPT ![j] = strftime(clock)]
                    /\ Goto(j, "extract_info")
                    /\ Invoke(j, "extract_info")
    /\ UNCHANGED <<clock, files, video_info, local_thumbnail,
                   selected_video_format, selected_audio_format>>
    /\ UNCHANGED cleaner_vars

\* the page behind the one valid URL of the model does not change between
\* two requests
SamePage(info) == \A i \in Jobs : video_info[i] # NoInfo => info = video_info[i]

\* lines 199-215: extract_info returns or raises; the locals are derived
ExtractInfo(j) ==
    /\ pc[j] = "extract_info"
    /\ \/ \E e \in ProviderErrors :
            /\ Fail(j, "Resolving", ExceptionMsg(e))
            /\ UNCHANGED <<video_info, calls>>
       \/ \E info \in ProviderInfos :
            /\ SamePage(info)
            /\ video_info' = [video_info EXCEPT ![j] = info]
            /\ IF InfoThumbnail(info) # <<>>
               THEN /\ Goto(j, "download_thumbnail")
                    /\ Invoke(j, "requests.get")
               ELSE /\ Goto(j, "select")
                    /\ UNCHANGED calls
    /\ UNCHANGED <<clock, files, video_url, timestamp, local_thumbnail,
                   selected_video_format, selected_audio_format>>
    /\ UNCHANGED <<pending, current_time, wake_at, cleaner_log>>

\* faulty variant: an error of the fetch is not caught in download_thumbnail
DownloadThumbnailFatal(j) ==
    /\ pc[j] = "download_thumbnail"
    /\ \/ /\ files' = Written(ThumbnailPath(filename_prefix(j)), TRUE)
          /\ local_thumbnail' =
                [local_thumbnail EXCEPT ![j] = ThumbnailPath(filename_prefix(j))]
          /\ Goto(j, "select")
       \/ \E e \in ProviderErrors :
            /\ Fail(j, "Resolving", ExceptionMsg(e))
            /\ UNCHANGED <<files, local_thumbnail>>
    /\ UNCHANGED <<clock, video_url, timestamp, video_info,
                   selected_video_format, selected_audio_format, calls>>
    /\ UNCHANGED <<pending, current_time, wake_at, cleaner_log>>

\* lines 90-118: download_thumbnail writes the image and returns its name;
\* or the request fails, or the write fails with the file already opened,
\* and it logs the error and returns None
DownloadThumbnail(j) ==
    /\ pc[j] = "download_thumbnail"
    /\ \/ /\ files' = Written(ThumbnailPath(filename_prefix(j)), TRUE)
          /\ local_thumbnail' =
                [local_thumbnail EXCEPT ![j] = ThumbnailPath(filename_prefix(j))]
       \/ UNCHANGED <<files, local_thumbnail>>
       \/ /\ files' = Written(ThumbnailPath(filename_prefix(j)), FALSE)
          /\ UNCHANGED local_thumbnail
    /\ Goto(j, "select")
    /\ UNCHANGED <<clock, video_url, timestamp, video_info,
                   selected_video_format, selected_audio_format, calls>>
    /\ UNCHANGED <<pending, current_time, wake_at, cleaner_log>>

\* lines 217-253: split the descriptors, choose one of each, name the files
SelectFormats(j) ==
    /\ pc[j] = "select"
    /\ LET all_formats == InfoFormats(video_info[j])
           pure_video == pure_video_formats(all_formats)
           pure_audio == pure_audio_formats(all_formats)
       IN  IF pure_video = <<>> \/ pure_audio = <<>>
           THEN /\ Fail(j, "Selecting", MsgNoStream)
                /\ UNCHANGED <<selected_video_format, selected_audio_format,
                               calls>>
           ELSE /\ selected_video_format' =
                     [selected_video_format EXCEPT ![j] = select_video(pure_video)]
                /\ selected_audio_format' =
                     [selected_audio_format EXCEPT ![j] = select_audio(pure_audio)]
                /\ Goto(j, "download_video")
                /\ Invoke(j, "download_video")
    /\ UNCHANGED <<clock, files, video_url, timestamp, video_info,
                   local_thumbnail>>
    /\ UNCHANGED <<pending, current_time, wake_at, cleaner_log>>

\* faulty variant: a failed video download is started again
DownloadVideoRetry(j) ==
    /\ pc[j] = "download_video"
    /\ \/ /\ files' = Written(temp_video_path(j), TRUE)
          /\ Goto(j, "download_audio")
          /\ Log(j, <<"download_video_ok", "download_audio">>)
       \/ /\ Len(calls[j]) < 4
          /\ Goto(j, "download_video")
          /\ Invoke(j, "download_video")
          /\ UNCHANGED files
    /\ UNCHANGED <<clock, video_url, timestamp, video_info, local_thumbnail,
                   selected_video_format, selected_audio_format>>
    /\ UNCHANGED <<pending, current_time, wake_at, cleaner_log>>

\* lines 256-263: ydl.download writes the video stream, or raises
DownloadVideo(j) ==
    /\ pc[j] = "download_video"
    /\ \/ /\ files' = Written(temp_video_path(j), TRUE)
          /\ Goto(j, "download_audio")
          /\ Log(j, <<"download_video_ok", "download_audio">>)
       \/ \E e \in ProviderErrors :
            /\ Fail(j, "Downloading", ExceptionMsg(e))
            /\ UNCHANGED <<files, calls>>
    /\ UNCHANGED <<clock, video_url, timestamp, video_info, local_thumbnail,
                   selected_video_format, selected_audio_format>>
    /\ UNCHANGED <<pending, current_time, wake_at, cleaner_log>>

\* faulty variant: a failed audio download removes the temp video
DownloadAudioCleansUp(j) ==
    /\ pc[j] = "download_audio"
    /\ \/ /\ files' = Written(temp_audio_path(j), TRUE)
          /\ Goto(j, "merge_check_video")
          /\ Invoke(j, "download_audio_ok")
       \/ \E e \in ProviderErrors :
            /\ Fail(j, "Downloading", ExceptionMsg(e))
            /\ files' = Removed(temp_video_path(j))
            /\ UNCHANGED calls
    /\ UNCHANGED <<clock, video_url, timestamp, video_info, local_thumbnail,
                   selected_video_format, selected_audio_format>>
    /\ UNCHANGED <<pending, current_time, wake_at, cleaner_log>>

\* lines 266-273: ydl.download writes the audio stream, or raises
DownloadAudio(j) ==
    /\ pc[j] = "download_audio"
    /\ \/ /\ files' = Written(temp_audio_path(j), TRUE)
          /\ Goto(j, "merge_check_video")
          /\ Invoke(j, "download_audio_ok")
       \/ \E e \in ProviderErrors :
            /\ Fail(j, "Downloading", ExceptionMsg(e))
            /\ UNCHANGED <<files, calls>>
    /\ UNCHANGED <<clock, video_url, timestamp, video_info, local_thumbnail,
                   selected_video_format, selected_audio_format>>
    /\ UNCHANGED <<pending, current_time, wake_at, cleaner_log>>

\* faulty variant: the video input is not looked for
MergeCheckVideoSkipped(j) ==
    /\ pc[j] = "merge_check_video"
    /\ Goto(j, "merge_check_audio")
    /\ UNCHANGED <<clock, files, video_url, timestamp, video_info,
                   local_thumbnail, selected_video_format,
                   selected_audio_format, calls>>
    /\ UNCHANGED <<pending, current_time, wake_at, cleaner_log>>

\* lines 132-134 and 276-277: merge_audio_video looks for the video input
MergeCheckVideo(j) ==
    /\ pc[j] = "merge_check_video"
    /\ IF Exists(temp_video_path(j))
       THEN Goto(j, "merge_check_audio")
       ELSE Fail(j, "Merging", ExceptionMsg(MsgMergeFailed))
    /\ UNCHANGED <<clock, files, video_url, timestamp, video_info,
                   local_thumbnail, selected_video_format,
                   selected_audio_format, calls>>
    /\ UNCHANGED <<pending, current_time, wake_at, cleaner_log>>

\* lines 135-158 and 276-277: the audio input is looked for, ffmpeg is started
MergeCheckAudio(j) ==
    /\ pc[j] = "merge_check_audio"
    /\ IF Exists(temp_audio_path(j))
       THEN /\ Goto(j, "ffmpeg")
            /\ Invoke(j, "ffmpeg")
       ELSE /\ Fail(j, "Merging", ExceptionMsg(MsgMergeFailed))
            /\ UNCHANGED calls
    /\ UNCHANGED <<clock, files, video_url, timestamp, video_info,
                   local_thumbnail, selected_video_format,
                   selected_audio_format>>
    /\ UNCHANGED <<pending, current_time, wake_at, cleaner_log>>

\* faulty variant: the temp files are cleaned up after a failed merge too
RunFfmpegAlwaysCleanup(j) ==
    /\ pc[j] = "ffmpeg"
    /\ \/ /\ files' = Written(final_video_path(j), TRUE)
          /\ Invoke(j, "ffmpeg_ok")
       \/ /\ UNCHANGED files
          /\ Invoke(j, "ffmpeg_failed")
    /\ Goto(j, "cleanup_video")
    /\ UNCHANGED <<clock, video_url, timestamp, video_info, local_thumbnail,
                   selected_video_format, selected_audio_format>>
    /\ UNCHANGED <<pending, current_time, wake_at, cleaner_log>>

\* lines 154-170 and 276-277: ffmpeg ends.  It exits 0 having written the
\* output; it exits non-zero with no output, or with the output half written
RunFfmpeg(j) ==
    /\ pc[j] = "ffmpeg"
    /\ \/ /\ Exists(temp_video_path(j)) /\ Exists(temp_audio_path(j))
          /\ files' = Written(final_video_path(j), TRUE)
          /\ Goto(j, "cleanup_video")
          /\ Invoke(j, "ffmpeg_ok")
       \/ /\ Exists(temp_video_path(j)) /\ Exists(temp_audio_path(j))
          /\ files' = Written(final_video_path(j), FALSE)
          /\ Fail(j, "Merging", ExceptionMsg(MsgMergeFailed))
          /\ Invoke(j, "ffmpeg_failed")
       \/ /\ UNCHANGED files
          /\ Fail(j, "Merging", ExceptionMsg(MsgMergeFailed))
          /\ Invoke(j, "ffmpeg_failed")
    /\ UNCHANGED <<clock, video_url, timestamp, video_info, local_thumbnail,
                   selected_video_format, selected_audio_format>>
    /\ UNCHANGED <<pending, current_time, wake_at, cleaner_log>>

\* faulty variant: the temp video is left in place
CleanupVideoSkipped(j) ==
    /\ pc[j] = "cleanup_video"
    /\ Goto(j, "cleanup_audio")
    /\ UNCHANGED <<clock, files, video_url, timestamp, video_info,
                   local_thumbnail, selected_video_format,
                   selected_audio_format, calls>>
    /\ UNCHANGED <<pending, current_time, wake_at, cleaner_log>>

\* lines 280-286, first round: os.remove deletes the file or raises
CleanupVideo(j) ==
    /\ pc[j] = "cleanup_video"
    /\ IF Exists(temp_video_path(j))
       THEN \/ /\ files' = Removed(temp_video_path(j))
               /\ Invoke(j, "remove_video")
            \/ /\ UNCHANGED files
               /\ Invoke(j, "remove_video_failed")
       ELSE UNCHANGED <<files, calls>>
    /\ Goto(j, "cleanup_audio")
    /\ UNCHANGED <<clock, video_url, timestamp, video_info, local_thumbnail,
                   selected_video_format, selected_audio_format>>
    /\ UNCHANGED <<pending, current_time, wake_at, cleaner_log>>

SuccessResponse(j) ==
    [kind |-> "success", error |-> <<>>, filename |-> final_video_path(j),
     video_title |-> video_title(j), thumbnail |-> local_thumbnail[j]]

\* faulty variant: an error of os.remove is not caught
CleanupAudioStrict(j) ==
    /\ pc[j] = "cleanup_audio"
    /\ IF Exists(temp_audio_path(j))
       THEN \/ /\ files' = Removed(temp_audio_path(j))
               /\ Invoke(j, "remove_audio")
               /\ pc' = [pc EXCEPT ![j] = "done"]
               /\ response' = [response EXCEPT ![j] = SuccessResponse(j)]
               /\ UNCHANGED failed_at
            \/ /\ UNCHANGED files
               /\ Invoke(j, "remove_audio_failed")
               /\ \E e \in ProviderErrors : Fail(j, "CleaningUp", ExceptionMsg(e))
       ELSE /\ UNCHANGED <<files, calls, failed_at>>
            /\ pc' = [pc EXCEPT ![j] = "done"]
            /\ response' = [response EXCEPT ![j] = SuccessResponse(j)]
    /\ UNCHANGED <<clock, video_url, timestamp, video_info, local_thumbnail,
                   selected_video_format, selected_audio_format>>
    /\ UNCHANGED <<pending, current_time, wake_at, cleaner_log>>

\* lines 280-297, second round and the return of the result page
CleanupAudio(j) ==
    /\ pc[j] = "cleanup_audio"
    /\ IF Exists(temp_audio_path(j))
       THEN \/ /\ files' = Removed(temp_audio_path(j))
               /\ Invoke(j, "remove_audio")
            \/ /\ UNCHANGED files
               /\ Invoke(j, "remove_audio_failed")
       ELSE UNCHANGED <<files, calls>>
    /\ pc' = [pc EXCEPT ![j] = "done"]
    /\ response' = [response EXCEPT ![j] = SuccessResponse(j)]
    /\ UNCHANGED <<clock, video_url, timestamp, video_info, local_thumbnail,
                   selected_video_format, selected_audio_format, failed_at>>
    /\ UNCHANGED <<pending, current_time, wake_at, cleaner_log>>

-----------------------------------------------------------------------------
(* clean_old_files(): the cleaner thread, lines 29-52 *)

\* os.listdir(folder), the regular files of it
ListDir(folder) == {p \in DOMAIN files : p.dir = folder}

\* faulty variant: >= for >
IsExpiredInclusive(path) == clock - files[path].ctime >= Seconds(MAX_FILE_AGE)

\* faulty variant: the age in milliseconds against the threshold in seconds
IsExpiredMillis(path) == clock - files[path].ctime > MAX_FILE_AGE

\* line 46: file_age > app.config['MAX_FILE_AGE'], with current_time = clock
IsExpired(path) == clock - files[path].ctime > Seconds(MAX_FILE_AGE)

Expired(folder) == {p \in ListDir(folder) : IsExpired(p)}

RemovedAll(paths) == [p \in DOMAIN files \ paths |-> files[p]]

\* faulty variant: the exception of os.remove is not caught, the thread ends
CleanerCycleFatal ==
    /\ clock >= wake_at
    /\ current_time' = clock
    /\ \/ /\ files' = RemovedAll(Expired(DOWNLOAD_FOLDER) \cup Expired(TEMP_FOLDER))
          /\ wake_at' = clock + Seconds(SLEEP_SECONDS)
          /\ cleaner_log' =
                IF Expired(DOWNLOAD_FOLDER) \cup Expired(TEMP_FOLDER) = {}
                THEN "" ELSE "deleted"
       \/ \E p \in Expired(DOWNLOAD_FOLDER) \cup Expired(TEMP_FOLDER) :
            /\ UNCHANGED files
            /\ wake_at' = clock + Seconds(SLEEP_SECONDS) * 1000
            /\ cleaner_log' = "error"
    /\ UNCHANGED <<clock, pending>>
    /\ UNCHANGED job_vars

\* lines 32-52, one cycle: time.sleep has returned, the two folders are
\* walked in turn and every expired file met is removed.  Both folders
\* exist: lines 25-26 create them and nothing in the program removes them.
\* When os.remove raises on a file, line 49 ends the cycle there: the files
\* listed before it are gone, the ones after it are not looked at.
CleanerCycle ==
    /\ clock >= wake_at
    /\ current_time' = clock
    /\ wake_at' = clock + Seconds(SLEEP_SECONDS)
    /\ \/ /\ files' = RemovedAll(Expired(DOWNLOAD_FOLDER) \cup Expired(TEMP_FOLDER))
          /\ cleaner_log' =
                IF Expired(DOWNLOAD_FOLDER) \cup Expired(TEMP_FOLDER) = {}
                THEN "" ELSE "deleted"
       \/ \E p \in Expired(DOWNLOAD_FOLDER) :
          \E before \in SUBSET (Expired(DOWNLOAD_FOLDER) \ {p}) :
            /\ files' = RemovedAll(before)
            /\ cleaner_log' = "error"
       \/ \E p \in Expired(TEMP_FOLDER) :
          \E before \in SUBSET (Expired(TEMP_FOLDER) \ {p}) :
            /\ files' = RemovedAll(Expired(DOWNLOAD_FOLDER) \cup before)
            /\ cleaner_log' = "error"
    /\ UNCHANGED <<clock, pending>>
    /\ UNCHANGED job_vars

-----------------------------------------------------------------------------
(* Time *)

\* positions between two blocking calls
LocalSteps ==
    {"select", "merge_check_video", "merge_check_audio", "cleanup_video",
     "cleanup_audio"}

\* no time passes while a thread is between two blocking calls, or once
\* time.sleep is due to return
Urgent ==
    \/ \E j \in Jobs : pc[j] \in LocalSteps
    \/ clock >= wake_at

TickFine ==
    /\ ~Urgent
    /\ (clock % Seconds(SLEEP_SECONDS)) \div FineStepMs < MaxFine
    /\ clock' = clock + FineStepMs
    /\ UNCHANGED <<pending, files>>
    /\ UNCHANGED job_vars
    /\ UNCHANGED cleaner_vars

TickLong ==
    /\ ~Urgent
    /\ clock \div Seconds(SLEEP_SECONDS) < MaxLong
    /\ clock' = clock + Seconds(SLEEP_SECONDS)
    /\ UNCHANGED <<pending, files>>
    /\ UNCHANGED job_vars
    /\ UNCHANGED cleaner_vars

-----------------------------------------------------------------------------
(* The program *)

NoFiles == [p \in {} |-> [ctime |-> 0, whole |-> FALSE]]

\* the state after import: the folders are empty, the cleaner thread is
\* about to start its first cycle, n requests will arrive
InitWith(n) ==
    /\ clock = 0
    /\ pending = n
    /\ files = NoFiles
    /\ pc = [j \in Jobs |-> "idle"]
    /\ video_url = [j \in Jobs |-> <<>>]
    /\ timestamp = [j \in Jobs |-> 0]
    /\ video_info = [j \in Jobs |-> NoInfo]
    /\ local_thumbnail = [j \in Jobs |-> NoPath]
    /\ selected_video_format = [j \in Jobs |-> NoFormat]
    /\ selected_audio_format = [j \in Jobs |-> NoFormat]
    /\ response = [j \in Jobs |-> NoResponse]
    /\ calls = [j \in Jobs |-> <<>>]
    /\ failed_at = [j \in Jobs |-> ""]
    /\ current_time = 0
    /\ wake_at = 0
    /\ cleaner_log = ""

Init == InitWith(Cardinality(Jobs))

InitSingle == InitWith(1)

JobStep(j) ==
    \/ Submit(j)
    \/ ExtractInfo(j)
    \/ DownloadThumbnail(j)
    \/ SelectFormats(j)
    \/ DownloadVideo(j)
    \/ DownloadAudio(j)
    \/ MergeCheckVideo(j)
    \/ MergeCheckAudio(j)
    \/ RunFfmpeg(j)
    \/ CleanupVideo(j)
    \/ CleanupAudio(j)

Next ==
    \/ \E j \in Jobs : JobStep(j)
    \/ CleanerCycle
    \/ TickFine
    \/ TickLong

Spec == Init /\ [][Next]_vars

SpecSingle == InitSingle /\ [][Next]_vars

-----------------------------------------------------------------------------
(* The selection step alone, over every descriptor list up to MaxFormats *)

FormatDomain ==
    { VideoFormat("v1", 1080), VideoFormat("v2", 1080), VideoFormat("v3", 720),
      VideoFormat("v4", 720), VideoFormat("v5", 1440),
      [format_id |-> "v6", vcodec |-> "avc1", acodec |-> "none", ext |-> "mp4"],
      AudioFormat("a1", 48000), AudioFormat("a2", 96000),
      AudioFormat("a3", 44100), AudioFormat("a4", 44100),
      AudioFormat("a5", 22050),
      [format_id |-> "a6", vcodec |-> "none", acodec |-> "mp4a", ext |-> "m4a"],
      [format_id |-> "m1", vcodec |-> "avc1", acodec |-> "mp4a",
       height |-> 1080, asr |-> 48000, ext |-> "mp4"],
      [format_id |-> "u1", acodec |-> "none", height |-> 1080, ext |-> "mp4"],
      [format_id |-> "u2", vcodec |-> "avc1", height |-> 1080, ext |-> "mp4"] }

FormatLists == UNION {[1..n -> FormatDomain] : n \in 0..MaxFormats}

\* job 1 has resolved a page without thumbnail and is about to select
InitSelect ==
    /\ clock = 0
    /\ pending = 0
    /\ files = NoFiles
    /\ pc = [j \in Jobs |-> IF j = 1 THEN "select" ELSE "idle"]
    /\ video_url = [j \in Jobs |-> IF j = 1
            THEN <<"http", "s", "://", "www.bilibili.com/video/", "B", "?">>
            ELSE <<>>]
    /\ timestamp = [j \in Jobs |-> 0]
    /\ \E formats \in FormatLists :
         video_info = [j \in Jobs |-> IF j = 1
            THEN [title |-> <<"a">>, formats |-> formats] ELSE NoInfo]
    /\ local_thumbnail = [j \in Jobs |-> NoPath]
    /\ selected_video_format = [j \in Jobs |-> NoFormat]
    /\ selected_audio_format = [j \in Jobs |-> NoFormat]
    /\ response = [j \in Jobs |-> NoResponse]
    /\ calls = [j \in Jobs |-> IF j = 1 THEN <<"extract_info">> ELSE <<>>]
    /\ failed_at = [j \in Jobs |-> ""]
    /\ current_time = 0
    /\ wake_at = 0
    /\ cleaner_log = ""

NextSelect == \E j \in Jobs : SelectFormats(j)

SpecSelect == InitSelect /\ [][NextSelect]_vars

-----------------------------------------------------------------------------
(* The title alone: every title up to MaxTitle, from resolution to the     *)
(* first file named after it                                               *)

TitleChars == IllegalChars \cup Whitespace \cup {"a"}

Titles == UNION {[1..n -> TitleChars] : n \in 0..MaxTitle}

\* job 1 has resolved a page without thumbnail and is about to select
InitSanitize ==
    /\ clock = 0
    /\ pending = 0
    /\ files = NoFiles
    /\ pc = [j \in Jobs |-> IF j = 1 THEN "select" ELSE "idle"]
    /\ video_url = [j \in Jobs |-> IF j = 1
            THEN <<"http", "s", "://", "www.bilibili.com/video/", "B", "?">>
            ELSE <<>>]
    /\ timestamp = [j \in Jobs |-> 0]
    /\ \E title \in Titles :
         video_info = [j \in Jobs |-> IF j = 1
            THEN [title |-> title, formats |-> GoodFormats] ELSE NoInfo]
    /\ local_thumbnail = [j \in Jobs |-> NoPath]
    /\ selected_video_format = [j \in Jobs |-> NoFormat]
    /\ selected_audio_format = [j \in Jobs |-> NoFormat]
    /\ response = [j \in Jobs |-> NoResponse]
    /\ calls = [j \in Jobs |-> IF j = 1 THEN <<"extract_info">> ELSE <<>>]
    /\ failed_at = [j \in Jobs |-> ""]
    /\ current_time = 0
    /\ wake_at = 0
    /\ cleaner_log = ""

NextSanitize == \E j \in Jobs : SelectFormats(j) \/ DownloadVideo(j)

SpecSanitize == InitSanitize /\ [][NextSanitize]_vars

-----------------------------------------------------------------------------
(* Vocabulary of the properties *)

Range(seq) == {seq[i] : i \in 1..Len(seq)}

Resolved(j) == video_info[j] # NoInfo

\* line 253 has been passed: the job has named its three files
HasPaths(j) == selected_video_format[j] # NoFormat

InFlight(j) == pc[j] \notin {"idle", "failed", "done"}

JobPaths(j) == {temp_video_path(j), temp_audio_path(j), final_video_path(j)}

\* a codec is present unless the descriptor marks it 'none'
VideoOnly(f) ==
    /\ (Has(f, "vcodec") => f.vcodec # "none")
    /\ Has(f, "acodec") /\ f.acodec = "none"

AudioOnly(f) ==
    /\ (Has(f, "acodec") => f.acodec # "none")
    /\ Has(f, "vcodec") /\ f.vcodec = "none"

HeightOf(f) == IF Has(f, "height") THEN f.height ELSE 0

RateOf(f) == IF Has(f, "asr") THEN f.asr ELSE 0

VideoPositions(formats) == {i \in 1..Len(formats) : VideoOnly(formats[i])}

AudioPositions(formats) == {i \in 1..Len(formats) : AudioOnly(formats[i])}

\* position i holds the first descriptor of `among` that is `preferred`, or,
\* when none is, the first one of the greatest rank
FirstPreferredOrFirstMax(i, among, preferred(_), rank(_)) ==
    /\ i \in among
    /\ IF \E k \in among : preferred(k)
       THEN /\ preferred(i)
            /\ \A k \in among : k < i => ~preferred(k)
       ELSE /\ \A k \in among : rank(k) <= rank(i)
            /\ \A k \in among : k < i => rank(k) < rank(i)

-----------------------------------------------------------------------------
(* C1: two runs in flight at the same time, also two runs for the same URL *)
(* submitted within the same second, share none of their temp video, temp  *)
(* audio and final output paths.                                           *)
C1_DistinctPaths ==
    \A i, j \in Jobs :
        (i # j /\ InFlight(i) /\ InFlight(j) /\ HasPaths(i) /\ HasPaths(j))
            => JobPaths(i) \cap JobPaths(j) = {}

(* C2: a file exists under a job's final output name only if the job's two *)
(* downloads and its merge have succeeded; a failed run leaves none.       *)
C2_FinalOnlyAfterMerge ==
    \A j \in Jobs :
        (Resolved(j) /\ Exists(FinalVideoPath(filename_prefix(j))))
            => {"download_video_ok", "download_audio_ok", "ffmpeg_ok"}
                    \subseteq Range(calls[j])

(* C3: the video chosen is the first video-only descriptor of height 1080, *)
(* wherever it stands; when there is none, the first video-only descriptor *)
(* of the greatest height.                                                 *)
C3_VideoSelection ==
    \A j \in Jobs :
        HasPaths(j) =>
            LET formats == InfoFormats(video_info[j])
                Preferred(k) == Has(formats[k], "height") /\ formats[k].height = 1080
                Rank(k) == HeightOf(formats[k])
            IN  \E i \in 1..Len(formats) :
                    /\ formats[i] = selected_video_format[j]
                    /\ FirstPreferredOrFirstMax(i, VideoPositions(formats),
                                                Preferred, Rank)

\* a 1080 descriptor is chosen although a taller video-only one stands before it
C3_Witness ==
    \E j \in Jobs :
        /\ HasPaths(j)
        /\ HeightOf(selected_video_format[j]) = 1080
        /\ LET formats == InfoFormats(video_info[j])
           IN  \E i, k \in VideoPositions(formats) :
                 /\ i < k
                 /\ HeightOf(formats[i]) > 1080
                 /\ formats[k] = selected_video_format[j]

(* C4: the audio chosen is the first audio-only descriptor whose sample     *)
(* rate is at least the preferred one (48000); when there is none, the      *)
(* first audio-only descriptor of the greatest sample rate.                 *)
C4_AudioSelection ==
    \A j \in Jobs :
        HasPaths(j) =>
            LET formats == InfoFormats(video_info[j])
                Preferred(k) == RateOf(formats[k]) >= 48000
                Rank(k) == RateOf(formats[k])
            IN  \E i \in 1..Len(formats) :
                    /\ formats[i] = selected_audio_format[j]
                    /\ FirstPreferredOrFirstMax(i, AudioPositions(formats),
                                                Preferred, Rank)

\* no rate reaches 48000 and two different descriptors tie for the greatest
C4_Witness ==
    \E j \in Jobs :
        /\ HasPaths(j)
        /\ LET formats == InfoFormats(video_info[j])
           IN  /\ \A k \in AudioPositions(formats) : RateOf(formats[k]) < 48000
               /\ \E i, k \in AudioPositions(formats) :
                    /\ i < k
                    /\ formats[i] # formats[k]
                    /\ RateOf(formats[i]) = RateOf(formats[k])
                    /\ formats[i] = selected_audio_format[j]

(* C5: when the resolved list holds no video-only descriptor or no         *)
(* audio-only descriptor, the job reports that no separate streams were    *)
(* found and neither download nor the merge tool is invoked.               *)
NoSeparateStreams(j) ==
    /\ Resolved(j)
    /\ \/ VideoPositions(InfoFormats(video_info[j])) = {}
       \/ AudioPositions(InfoFormats(video_info[j])) = {}

C5_NoStreamsNoDownload ==
    \A j \in Jobs :
        NoSeparateStreams(j) =>
            /\ pc[j] \in {"download_thumbnail", "select", "failed"}
            /\ pc[j] = "failed" =>
                    /\ failed_at[j] = "Selecting"
                    /\ response[j] = ErrorResponse(MsgNoStream)
            /\ Range(calls[j]) \cap {"download_video", "download_audio", "ffmpeg"} = {}

\* a list with a video-only descriptor and no audio-only one has been refused
C5_Witness ==
    \E j \in Jobs :
        /\ NoSeparateStreams(j)
        /\ VideoPositions(InfoFormats(video_info[j])) # {}
        /\ pc[j] = "failed"

(* C6: a submitted URL that is empty after trimming, or that does not match *)
(* the two accepted URL shapes, is answered with a validation error; no     *)
(* provider, download or merge call is made and no file is written.         *)
Rejected(j) ==
    /\ pc[j] # "idle"
    /\ \/ video_url[j] = <<>>
       \/ ~is_valid_bilibili_url(video_url[j])

C6_InvalidUrlRejected ==
    /\ \A j \in Jobs :
        Rejected(j) =>
            /\ pc[j] = "failed"
            /\ failed_at[j] = "Validating"
            /\ response[j].kind = "error"
            /\ response[j].error =
                    IF video_url[j] = <<>> THEN MsgEmptyUrl ELSE MsgInvalidUrl
            /\ calls[j] = <<>>
    /\ (\A j \in Jobs : pc[j] # "idle" => Rejected(j)) => files = NoFiles

\* a non-empty URL of the wrong shape has been refused
C6_Witness ==
    \E j \in Jobs :
        /\ Rejected(j)
        /\ video_url[j] # <<>>
        /\ pc[j] = "failed"

(* C7: when the temp video or the temp audio file is missing at the moment  *)
(* the merge looks for it, the job fails with the merge error and the merge *)
(* tool is not invoked.                                                     *)
InputMissing(j) ==
    \/ pc[j] = "merge_check_video" /\ ~Exists(temp_video_path(j))
    \/ pc[j] = "merge_check_audio" /\ ~Exists(temp_audio_path(j))

C7_MissingInputNoMerge ==
    [][\A j \in Jobs :
        (InputMissing(j) /\ pc'[j] # pc[j]) =>
            /\ pc'[j] = "failed"
            /\ failed_at'[j] = "Merging"
            /\ response'[j] = ErrorResponse(ExceptionMsg(MsgMergeFailed))
            /\ "ffmpeg" \notin Range(calls'[j])]_vars

\* the temp video was deleted before the merge looked for it
C7_Witness ==
    \E j \in Jobs :
        /\ failed_at[j] = "Merging"
        /\ "download_audio_ok" \in Range(calls[j])
        /\ "ffmpeg" \notin Range(calls[j])
        /\ ~Exists(temp_video_path(j))

(* C8, as stated: when a job reaches Done the merge tool has returned       *)
(* success, the final file exists under the reported name, and both temp    *)
(* files are gone.                                                          *)
ReachesDone(j) == pc[j] # "done" /\ pc'[j] = "done"

MergedAndReported(j) ==
    /\ "ffmpeg_ok" \in Range(calls'[j])
    /\ final_video_path(j) \in DOMAIN files'
    /\ response'[j].kind = "success"
    /\ response'[j].filename = final_video_path(j)

SharesPath(j, path) ==
    \E i \in Jobs \ {j} :
        /\ HasPaths(i)
        /\ path \in {temp_video_path(i), temp_audio_path(i)}

Stages == {"Resolving", "Selecting", "Downloading", "Merging"}

C9_MessageNamesStage ==
    /\ \A j \in Jobs :
        failed_at[j] \in Stages =>
            Range(response[j].error) \cap ProviderErrors = {}
    /\ \A i, j \in Jobs :
        (failed_at[i] \in Stages /\ failed_at[j] \in Stages
            /\ failed_at[i] # failed_at[j])
            => response[i].error # response[j].error

(* C10: the title used for file names and in the response is never empty:   *)
(* when sanitising leaves nothing, a name derived from the timestamp is     *)
(* used.                                                                    *)
C10_TitleNeverEmpty ==
    \A j \in Jobs : Resolved(j) => video_title(j) # <<>>

(* C13: whatever the outcome of the thumbnail fetch, the job goes on to     *)
(* selection and is not failed; a fetch that failed leaves the job without  *)
(* thumbnail, and apart from the thumbnail the job is in the state a        *)
(* successful fetch leaves it in.                                           *)
C13_ThumbnailBestEffort ==
    [][\A j \in Jobs :
        (pc[j] = "download_thumbnail" /\ pc'[j] # pc[j]) =>
            /\ pc'[j] = "select"
            /\ failed_at'[j] = "" /\ response'[j] = NoResponse
            /\ calls'[j] = calls[j] /\ video_info'[j] = video_info[j]
            /\ \/ local_thumbnail'[j] = NoPath
               \/ /\ local_thumbnail'[j] = ThumbnailPath(filename_prefix(j))
                  /\ local_thumbnail'[j] \in DOMAIN files'
                  /\ files'[local_thumbnail'[j]].whole]_vars

\* a job whose fetch failed has gone all the way to the result page
C13_Witness ==
    \E j \in Jobs :
        /\ "requests.get" \in Range(calls[j])
        /\ local_thumbnail[j] = NoPath
        /\ pc[j] = "done"
        /\ response[j].thumbnail = NoPath

(* C14: once the merge has succeeded the job is never failed: whether or    *)
(* not the two temp files could be deleted, it goes through the cleanup to  *)
(* Done and reports success with the final file name.                       *)
C14_CleanupNeverFails ==
    \A j \in Jobs :
        "ffmpeg_ok" \in Range(calls[j]) =>
            /\ pc[j] \in {"cleanup_video", "cleanup_audio", "done"}
            /\ failed_at[j] = ""
            /\ pc[j] # "done" => ENABLED JobStep(j)
            /\ pc[j] = "done" =>
                    /\ response[j].kind = "success"
                    /\ response[j].filename = final_video_path(j)

\* a job is Done although neither temp file could be deleted
C14_Witness ==
    \E j \in Jobs :
        /\ pc[j] = "done"
        /\ response[j].kind = "success"
        /\ "remove_video_failed" \in Range(calls[j])
        /\ "remove_audio_failed" \in Range(calls[j])

(* C15: for every title, the sanitized title holds none of the characters  *)
(* \ / : * ? " < > | and neither starts nor ends with whitespace, and       *)
(* sanitizing it again returns it unchanged.                                *)
C15_SanitizerIdempotent ==
    \A j \in Jobs :
        Resolved(j) =>
            LET out == video_title(j)
            IN  /\ \A i \in 1..Len(out) :
                    out[i] \notin {"\\", "/", ":", "*", "?", "\"", "<", ">", "|"}
                /\ out # <<>> =>
                    /\ out[1] \notin {" ", "\t", "\n"}
                    /\ out[Len(out)] \notin {" ", "\t", "\n"}
                /\ sanitize_filename(out) = out

\* a file is named after a title whose whitespace was laid bare by the
\* removal of the illegal characters around it
C15_Witness ==
    \E j \in Jobs :
        /\ Resolved(j) /\ HasPaths(j)
        /\ Exists(temp_video_path(j))
        /\ LET title == InfoTitle(video_info[j], timestamp[j])
           IN  /\ Len(title) = 3
               /\ title[1] \in IllegalChars
               /\ title[2] \in Whitespace
               /\ title[3] = "a"
               /\ video_title(j) = <<"a">>

-----------------------------------------------------------------------------
(* The order of the operations of a job *)

ExternalOps ==
    {"extract_info", "requests.get", "download_video", "download_audio", "ffmpeg"}

Occurrences(seq, x) == Cardinality({i \in 1..Len(seq) : seq[i] = x})

\* a stands before b in seq
Before(seq, a, b) ==
    \E i, k \in 1..Len(seq) : i < k /\ seq[i] = a /\ seq[k] = b

(* C16: within a job every external operation is invoked at most once; the  *)
(* step in which one of them fails ends the job in Failed, and a failed job *)
(* invokes nothing more.                                                    *)
C16_NoRetryImmediateStop ==
    [][\A j \in Jobs :
        /\ \A op \in ExternalOps : Occurrences(calls'[j], op) <= 1
        /\ pc'[j] = "failed" =>
                \A op \in ExternalOps :
                    Occurrences(calls'[j], op) = Occurrences(calls[j], op)
        /\ pc[j] = "failed" => (pc'[j] = "failed" /\ calls'[j] = calls[j])]_vars

\* the audio download failed after the video download: no merge was started
C16_Witness ==
    \E j \in Jobs :
        /\ failed_at[j] = "Downloading"
        /\ "download_video_ok" \in Range(calls[j])
        /\ "download_audio" \in Range(calls[j])
        /\ "ffmpeg" \notin Range(calls[j])

(* C17: the merge tool is invoked only after both downloads have ended      *)
(* successfully, a download is started only after a video and an audio      *)
(* descriptor have been chosen, and the job deletes a temp file only after  *)
(* the merge has succeeded.                                                 *)
C17_OrderWithinJob ==
    \A j \in Jobs :
        /\ "ffmpeg" \in Range(calls[j]) =>
                /\ Before(calls[j], "download_video_ok", "ffmpeg")
                /\ Before(calls[j], "download_audio_ok", "ffmpeg")
        /\ \A op \in {"download_video", "download_audio"} :
                op \in Range(calls[j]) =>
                    /\ selected_video_format[j] # NoFormat
                    /\ selected_audio_format[j] # NoFormat
        /\ \A op \in {"remove_video", "remove_video_failed",
                      "remove_audio", "remove_audio_failed"} :
                op \in Range(calls[j]) => Before(calls[j], "ffmpeg_ok", op)

\* a job has selected, downloaded, merged and deleted both temp files
C17_Witness ==
    \E j \in Jobs :
        /\ pc[j] = "done"
        /\ "remove_video" \in Range(calls[j])
        /\ "remove_audio" \in Range(calls[j])

-----------------------------------------------------------------------------
(* The cleaner thread *)

\* this step is a cycle of clean_old_files
CycleStep == wake_at' # wake_at

\* age of the file at path, seen from the start of a cycle that starts now
AgeOf(path) == clock - files[path].ctime

PastRetention(path) == AgeOf(path) > Seconds(MAX_FILE_AGE)

(* C11: an error while deleting one file is logged and skipped: the cycle   *)
(* still deletes every other file that is past the retention threshold, in  *)
(* that folder and in the other one.                                        *)
C11_ErrorSkipsOneFile ==
    [][CycleStep =>
        Cardinality({p \in DOMAIN files' : PastRetention(p)})
            <= (IF cleaner_log' = "error" THEN 1 ELSE 0)]_vars

(* C12, as stated: in each cycle every file whose age exceeds the retention *)
(* threshold is deleted, and every file whose age is at or below it is left *)
(* untouched.                                                               *)
KeepsYoungFiles ==
    \A p \in DOMAIN files :
        ~PastRetention(p) => (p \in DOMAIN files' /\ files'[p] = files[p])

C18_CleanerNeverStops ==
    /\ wake_at \in {0, current_time + Seconds(SLEEP_SECONDS)}
    /\ wake_at <= clock + Seconds(SLEEP_SECONDS)
    /\ clock >= wake_at => ENABLED CleanerCycle

\* a cycle has ended on an error and the thread is asleep until the next one
C18_Witness ==
    /\ cleaner_log = "error"
    /\ current_time = clock
    /\ wake_at = clock + Seconds(SLEEP_SECONDS)

-----------------------------------------------------------------------------
(* The cleaner thread and the jobs *)

\* the files the job has written so far
OwnFiles(j) ==
    {p \in JobPaths(j) :
        \/ p = temp_video_path(j) /\ "download_video_ok" \in Range(calls[j])
        \/ p = temp_audio_path(j) /\ "download_audio_ok" \in Range(calls[j])
        \/ p = final_video_path(j) /\ "ffmpeg_ok" \in Range(calls[j])}

\* another job uses one of the paths of job j
SharesAPath(j) ==
    \E i \in Jobs \ {j} : HasPaths(i) /\ JobPaths(i) \cap JobPaths(j) # {}

(* C19: while a job is in flight a cycle of the cleaner deletes a file the  *)
(* job has written only if that file is older than the retention threshold; *)
(* a job whose input is missing at the merge, and whose paths no other job  *)
(* uses, has been running for longer than the threshold.                    *)
C19_CleanerSparesShortJob ==
    [][\A j \in Jobs :
        /\ (CycleStep /\ InFlight(j) /\ HasPaths(j)) =>
                \A p \in OwnFiles(j) \cap DOMAIN files :
                    p \notin DOMAIN files' => PastRetention(p)
        /\ (InputMissing(j) /\ pc'[j] = "failed") =>
                \/ clock - Seconds(timestamp[j]) > Seconds(MAX_FILE_AGE)
                \/ SharesAPath(j)]_vars

\* the cleaner has deleted the temp video of a job that is still downloading
C19_Witness ==
    \E j \in Jobs :
        /\ pc[j] = "download_audio"
        /\ "download_video_ok" \in Range(calls[j])
        /\ ~Exists(temp_video_path(j))
        /\ cleaner_log # ""

(* C20: the step that ends a job in Failed removes no file, and the files   *)
(* of a failed job are removed only by the cleaner (or by another job that  *)
(* uses the same path); the cleanup step of a job is entered only after a   *)
(* successful merge.                                                        *)
C20_FailedJobDeletesNothing ==
    [][\A j \in Jobs :
        /\ (pc'[j] = "failed" /\ pc[j] # "failed") =>
                DOMAIN files \subseteq DOMAIN files'
        /\ (pc[j] = "failed" /\ ~(DOMAIN files \subseteq DOMAIN files')) =>
                \/ CycleStep
                \/ \E i \in Jobs \ {j} : pc'[i] # pc[i]
        /\ pc'[j] \in {"cleanup_video", "cleanup_audio"} =>
                "ffmpeg_ok" \in Range(calls'[j])]_vars

\* the audio download failed: the temp video and the thumbnail are still there
C20_Witness ==
    \E j \in Jobs :
        /\ failed_at[j] = "Downloading"
        /\ "download_video_ok" \in Range(calls[j])
        /\ Exists(temp_video_path(j))
        /\ local_thumbnail[j] # NoPath
        /\ Exists(local_thumbnail[j])

====
